---------------------------- MODULE Spec2Model ----------------------------
(***************************************************************************)
(* mambo: a MySQL -> StatsD collector (mambo.go).                          *)
(*                                                                         *)
(* main starts one controller goroutine per command.  A controller waits   *)
(* on its ticker and calls mysqlWorker synchronously; mysqlWorker runs     *)
(* sql.Open, Ping, Prepare, QueryRow().Scan and then sends "<key>:<result>"*)
(* on the unbuffered channel `results`.  main receives from the channel    *)
(* and calls statsdSender synchronously, which opens a statsd client,      *)
(* splits the message, parses the value and calls client.Inc.              *)
(*                                                                         *)
(* Strings are sequences of one-character strings, so that fmt.Sprint,     *)
(* strings.Split and strconv.ParseInt are computed as the code does.       *)
(***************************************************************************)
EXTENDS Integers, Sequences, FiniteSets, TLC

VARIABLES
    ctl,          \* controller goroutine of each command: "select" | "call" | "dead"
    tickPending,  \* the ticker channel (buffer of one) of each command holds a tick
    fired,        \* ticks the runtime timer fired for each command
    started,      \* mysqlWorker calls the controller of each command made
    workers,      \* the mysqlWorker calls in progress (records)
    main,         \* main's receive loop: "recv" | "call" | "dead"
    senders,      \* the statsdSender calls in progress (records)
    recvCount,    \* messages main received from `results`
    incNos,       \* receive numbers of the messages, in the order of their client.Inc calls
    incSeqs,      \* per command: tick numbers, in the order of their client.Inc calls
    lastSend,     \* what the last finished statsdSender call did
    crash,        \* the unrecovered panic that ended the process, if any
    held,         \* the open *sql.DB and *sql.Stmt handles, each with the call that opened it
    clock,        \* wall-clock time and each ticker's next firing time (timed runs only)
    io            \* argument and result of a pure function under check (pure runs only)

vars == <<ctl, tickPending, fired, started, workers, main, senders, recvCount,
          incNos, incSeqs, lastSend, crash, held, clock, io>>

\* Ticks the timers fire, all commands together, within a run of the model.
MaxTicks == 3

\* The command sections of the configuration file.
Commands == {"q1", "q2"}

\* command.key of each command.
CmdKey(p) == IF p = "q1" THEN <<"q", "1">> ELSE <<"q", "2">>

\* What a query's single column can scan into the string `result`.
Scalars == {<<"4", "2">>, <<"a">>}

----------------------------------------------------------------------------
(* fmt.Sprint, strings.Split, strconv.ParseInt *)

\* As if the operands were written in the wrong order.
SprintSwapped(key, result) == result \o <<":">> \o key

\* fmt.Sprint(cmd.key, ":", result): string operands are concatenated.
Sprint(key, result) == key \o <<":">> \o result

ColonAt(s) == {i \in 1..Len(s) : s[i] = ":"}

FirstColon(s) == CHOOSE i \in ColonAt(s) : \A j \in ColonAt(s) : i <= j

RECURSIVE Split(_)
\* strings.Split(s, ":"): every piece between separators.
Split(s) ==
    IF ColonAt(s) = {} THEN <<s>>
    ELSE <<SubSeq(s, 1, FirstColon(s) - 1)>>
             \o Split(SubSeq(s, FirstColon(s) + 1, Len(s)))

Digits == {"0", "1", "2", "3", "4", "5", "6", "7", "8", "9"}

DigitVal(c) ==
    CASE c = "0" -> 0 [] c = "1" -> 1 [] c = "2" -> 2 [] c = "3" -> 3
      [] c = "4" -> 4 [] c = "5" -> 5 [] c = "6" -> 6 [] c = "7" -> 7
      [] c = "8" -> 8 [] OTHER -> 9

RECURSIVE DecVal(_)
DecVal(s) == IF s = <<>> THEN 0
             ELSE 10 * DecVal(SubSeq(s, 1, Len(s) - 1)) + DigitVal(s[Len(s)])

\* As if strconv.ParseUint had been used: a sign is a syntax error.
ParseIntNoSign(s) ==
    IF s # <<>> /\ \A i \in 1..Len(s) : s[i] \in Digits
    THEN [err |-> FALSE, val |-> DecVal(s)]
    ELSE [err |-> TRUE, val |-> 0]

\* strconv.ParseInt(s, 10, 64): an optional sign and at least one digit; on a
\* syntax error the value is 0.  (Strings here are too short to overflow.)
ParseInt(s) ==
    LET signed == s # <<>> /\ s[1] \in {"+", "-"}
        body   == IF signed THEN Tail(s) ELSE s
        good   == body # <<>> /\ \A i \in 1..Len(body) : body[i] \in Digits
    IN  IF good
        THEN [err |-> FALSE,
              val |-> IF signed /\ s[1] = "-" THEN 0 - DecVal(body) ELSE DecVal(body)]
        ELSE [err |-> TRUE, val |-> 0]

DigitChar(d) ==
    CASE d = 0 -> "0" [] d = 1 -> "1" [] d = 2 -> "2" [] d = 3 -> "3"
      [] d = 4 -> "4" [] d = 5 -> "5" [] d = 6 -> "6" [] d = 7 -> "7"
      [] d = 8 -> "8" [] OTHER -> "9"

RECURSIVE FormatNat(_)
FormatNat(n) == IF n < 10 THEN <<DigitChar(n)>>
                ELSE Append(FormatNat(n \div 10), DigitChar(n % 10))

\* An integer as Scan(&result) and fmt.Sprint write it: decimal, "-" for a
\* negative number.
FormatInt(v) == IF v < 0 THEN <<"-">> \o FormatNat(0 - v) ELSE FormatNat(v)

----------------------------------------------------------------------------
(* State *)

NoCrash == [by |-> "none", cmd |-> "none", steps |-> <<>>]

NoSend == [done |-> FALSE, src |-> "none", seq |-> 0, key |-> <<>>, value |-> 0,
           connectErr |-> FALSE, decodeErr |-> FALSE, incIssued |-> FALSE,
           sendErr |-> FALSE, scalar |-> <<>>, rate |-> "none"]

Alive == crash.by = "none"

\* A mysqlWorker call as it is entered: `var result string` is "".
NewWorker(p, n) ==
    [cmd |-> p, seq |-> n, pc |-> "open", db |-> "none", stmt |-> "none",
     result |-> <<>>, steps |-> <<>>]

Step(op, res) == [op |-> op, res |-> res]

\* main has loaded the configuration and launched one controller per command;
\* every controller has made its ticker and is at its select.
Started ==
    /\ ctl = [p \in Commands |-> "select"]
    /\ tickPending = [p \in Commands |-> FALSE]
    /\ fired = [p \in Commands |-> 0]
    /\ started = [p \in Commands |-> 0]
    /\ workers = {}
    /\ main = "recv"
    /\ senders = {}
    /\ recvCount = 0
    /\ incNos = <<>>
    /\ incSeqs = [p \in Commands |-> <<>>]
    /\ lastSend = NoSend
    /\ crash = NoCrash
    /\ held = {}

NoClock == [now |-> 0, next |-> <<>>]

NoIo == [fn |-> "none"]

Init == Started /\ clock = NoClock /\ io = NoIo

\* An unrecovered panic in any goroutine ends the process: every goroutine is
\* gone, and nothing is sent or received any more.
Panic(by, p, steps) ==
    /\ crash' = [by |-> by, cmd |-> p, steps |-> steps]
    /\ ctl' = [q \in Commands |-> "dead"]
    /\ main' = "dead"
    /\ workers' = {}
    /\ senders' = {}
    /\ held' = {}


----------------------------------------------------------------------------
(* controller *)

RECURSIVE TotalFired(_)
TotalFired(S) == IF S = {} THEN 0
                 ELSE LET p == CHOOSE q \in S : TRUE
                      IN  fired[p] + TotalFired(S \ {p})

\* The ticker puts a tick into its channel, which holds one; a tick that
\* finds one there is dropped.
Fire(p) ==
    /\ fired' = [fired EXCEPT ![p] = @ + 1]
    /\ tickPending' = [tickPending EXCEPT ![p] = TRUE]
    /\ UNCHANGED <<ctl, started, workers, main, senders, recvCount, incNos,
                   incSeqs, lastSend, crash, held>>

\* time.NewTicker: the runtime timer fires whatever the controller is doing;
\* the ticker's channel holds one tick, and a tick that finds it full is dropped.
TickFire(p) ==
    /\ Alive
    /\ TotalFired(Commands) < MaxTicks
    /\ Fire(p)

\* As if one mutex serialised the workers of all commands: a tick is taken only
\* while no mysqlWorker call is in progress anywhere.
TickReadySerial(p) == ctl[p] = "select" /\ tickPending[p] /\ workers = {}

\* As if a controller at its select needed no tick.
TickReadyAlways(p) == ctl[p] = "select"

\* `case <-tick:` the controller is at its select and its ticker holds a tick.
TickReady(p) == ctl[p] = "select" /\ tickPending[p]

\* As if the call were `go mysqlWorker(...)`: the controller is back at its select
\* at once.
CtlAfterTickAsync(p) == "select"

\* `mysqlWorker(cnf, cmd, results)` is an ordinary call: the controller is inside
\* it until it returns.
CtlAfterTick(p) == "call"

\* As if the select were not inside a `for`: the controller ends after one call.
CtlAfterReturnOnce(p) == "dead"

\* The call returned: the `for` loop takes the controller back to its select.
CtlAfterReturn(p) == "select"

HandleTick(p) ==
    /\ Alive
    /\ TickReady(p)
    /\ tickPending' = [tickPending EXCEPT ![p] = FALSE]
    /\ started' = [started EXCEPT ![p] = @ + 1]
    /\ workers' = workers \cup {NewWorker(p, started[p] + 1)}
    /\ ctl' = [ctl EXCEPT ![p] = CtlAfterTick(p)]
    /\ UNCHANGED <<fired, main, senders, recvCount, incNos, incSeqs, lastSend, crash,
                   held>>

----------------------------------------------------------------------------
(* mysqlWorker *)

Replace(w, w2) == (workers \ {w}) \cup {w2}

Outcome(ok) == IF ok THEN "ok" ELSE "err"

\* The handle `kind` ("db" or "stmt") opened by call w.
Handle(w, kind) == [cmd |-> w.cmd, seq |-> w.seq, kind |-> kind]

\* db, err := sql.Open(...); if err != nil { logger.Error } ; defer db.Close()
\* On an error db is nil, the error is logged and the function goes on.
SqlOpen(w) ==
    /\ w.pc = "open"
    /\ \E ok \in BOOLEAN :
         /\ workers' = Replace(w, [w EXCEPT !.pc = "ping",
                                            !.db = IF ok THEN "open" ELSE "nil",
                                            !.steps = Append(@, Step("open", Outcome(ok)))])
         /\ held' = IF ok THEN held \cup {Handle(w, "db")} ELSE held
    /\ UNCHANGED <<ctl, tickPending, fired, started, main, senders, recvCount,
                   incNos, incSeqs, lastSend, crash>>

\* err = db.Ping(); if err != nil { logger.Error }
\* On a nil *sql.DB the call dereferences nil and panics.
Ping(w) ==
    /\ w.pc = "ping"
    /\ IF w.db = "nil"
       THEN Panic("mysqlWorker", w.cmd, Append(w.steps, Step("ping", "panic")))
       ELSE /\ \E ok \in BOOLEAN :
                 workers' = Replace(w, [w EXCEPT !.pc = "prepare",
                                   !.steps = Append(@, Step("ping", Outcome(ok)))])
            /\ UNCHANGED <<ctl, main, senders, crash, held>>
    /\ UNCHANGED <<tickPending, fired, started, recvCount, incNos, incSeqs, lastSend>>

\* stmtOut, err := db.Prepare(cmd.query); if err != nil { logger.Error }
\* defer stmtOut.Close().  Prepare takes its own connection from the pool, so it
\* can succeed after a failed Ping and fail after a good one; on an error
\* stmtOut is nil.
Prepare(w) ==
    /\ w.pc = "prepare"
    /\ \E ok \in BOOLEAN :
         /\ workers' = Replace(w, [w EXCEPT !.pc = "scan",
                                            !.stmt = IF ok THEN "open" ELSE "nil",
                                            !.steps = Append(@, Step("prepare", Outcome(ok)))])
         /\ held' = IF ok THEN held \cup {Handle(w, "stmt")} ELSE held
    /\ UNCHANGED <<ctl, tickPending, fired, started, main, senders, recvCount,
                   incNos, incSeqs, lastSend, crash>>

\* err = stmtOut.QueryRow().Scan(&result); if err != nil { logger.Error }
\* On a nil *sql.Stmt QueryRow dereferences nil and panics.  A failed Scan
\* leaves `result` as it was (""), and the function goes on to
\* res := fmt.Sprint(cmd.key, ":", result) and blocks in `results <- res`.
Scan(w) ==
    /\ w.pc = "scan"
    /\ IF w.stmt = "nil"
       THEN Panic("mysqlWorker", w.cmd, Append(w.steps, Step("scan", "panic")))
       ELSE /\ \/ \E r \in Scalars :
                    workers' = Replace(w, [w EXCEPT !.pc = "send", !.result = r,
                                      !.steps = Append(@, Step("scan", "ok"))])
               \/ workers' = Replace(w, [w EXCEPT !.pc = "send",
                                      !.steps = Append(@, Step("scan", "err"))])
            /\ UNCHANGED <<ctl, main, senders, crash, held>>
    /\ UNCHANGED <<tickPending, fired, started, recvCount, incNos, incSeqs, lastSend>>

----------------------------------------------------------------------------
(* main's loop and statsdSender *)

\* `case msg := <-results:` main is at its select.
MainReady == main = "recv"

\* As if the call were `go statsdSender(...)`: main is back at its select at once.
MainAfterRecvAsync == "recv"

\* `statsdSender(config, msg)` is an ordinary call: main is inside it until it
\* returns.
MainAfterRecv == "call"

\* As if `defer stmtOut.Close()` were missing: only the *sql.DB is closed.
DeferredDbOnly(w) == {Handle(w, "db")}

\* `defer db.Close()` and `defer stmtOut.Close()`: both handles are closed when
\* mysqlWorker returns.
Deferred(w) == {Handle(w, "db"), Handle(w, "stmt")}

\* `results <- res` meets `msg := <-results`: the channel has no buffer, so the
\* send and the receive are one step.  mysqlWorker returns (its deferred Close
\* calls run) and main calls statsdSender.
Handoff(w) ==
    /\ w.pc = "send"
    /\ MainReady
    /\ workers' = workers \ {w}
    /\ held' = held \ Deferred(w)
    /\ ctl' = [ctl EXCEPT ![w.cmd] = CtlAfterReturn(w.cmd)]
    /\ recvCount' = recvCount + 1
    /\ senders' = senders \cup {[no |-> recvCount + 1,
                                 msg |-> Sprint(CmdKey(w.cmd), w.result),
                                 src |-> w, pc |-> "newclient"]}
    /\ main' = MainAfterRecv
    /\ UNCHANGED <<tickPending, fired, started, incNos, incSeqs, lastSend, crash>>

\* client, err := statsd.NewClient(...); if err != nil { logger.Error }
\* defer client.Close().  NewClient returns the Statter interface; on an error
\* it is the nil interface, and taking client.Close for the defer panics.
NewClient(s) ==
    /\ s.pc = "newclient"
    /\ \/ /\ senders' = (senders \ {s}) \cup {[s EXCEPT !.pc = "inc"]}
          /\ UNCHANGED <<ctl, main, workers, crash, lastSend, held>>
       \/ /\ Panic("statsdSender", s.src.cmd, <<Step("newclient", "err")>>)
          /\ lastSend' = [NoSend EXCEPT !.done = TRUE, !.src = s.src.cmd,
                                        !.seq = s.src.seq, !.connectErr = TRUE]
    /\ UNCHANGED <<tickPending, fired, started, recvCount, incNos, incSeqs>>

\* arr := strings.Split(msg, ":"); key := arr[0]
\* value, err := strconv.ParseInt(arr[1], 10, 64); if err != nil { logger.Error }
\* err = client.Inc(key, value, 1.0); if err != nil { logger.Error }
\* A value that does not parse is logged and client.Inc is called with 0.
Inc(s) ==
    /\ s.pc = "inc"
    /\ LET arr == Split(s.msg)
       IN  IF Len(arr) < 2
           THEN /\ Panic("statsdSender", s.src.cmd, <<Step("index", "panic")>>)
                /\ UNCHANGED <<incNos, incSeqs, lastSend>>
           ELSE /\ \E ok \in BOOLEAN :
                     lastSend' = [done |-> TRUE, src |-> s.src.cmd, seq |-> s.src.seq,
                                  key |-> arr[1], value |-> ParseInt(arr[2]).val,
                                  connectErr |-> FALSE,
                                  decodeErr |-> ParseInt(arr[2]).err,
                                  incIssued |-> TRUE, sendErr |-> ~ok,
                                  scalar |-> s.src.result, rate |-> "1.0"]
                /\ incNos' = Append(incNos, s.no)
                /\ incSeqs' = [incSeqs EXCEPT ![s.src.cmd] = Append(@, s.src.seq)]
                /\ senders' = senders \ {s}
                /\ main' = "recv"
                /\ UNCHANGED <<ctl, workers, crash, held>>
    /\ UNCHANGED <<tickPending, fired, started, recvCount>>

----------------------------------------------------------------------------

\* The steps of mysqlWorker that talk to the database.
DbIO == {"open", "ping", "prepare", "scan"}

WorkersOf(p) == {w \in workers : w.cmd = p}

HasErr(steps) == \E i \in 1..Len(steps) : steps[i].res # "ok"

\* No step of the call ran after a step that had failed.
StopsAtFirstErr(steps) == \A i \in 1..Len(steps) : steps[i].res # "ok" => i = Len(steps)

StrictlyIncreasing(q) == \A i, j \in 1..Len(q) : i < j => q[i] < q[j]

\* A step of the pipeline in a run that keeps no clock.
Untimed(A) == A /\ UNCHANGED <<clock, io>>

Next ==
    \/ \E p \in Commands : Untimed(TickFire(p))
    \/ \E p \in Commands : Untimed(HandleTick(p))
    \/ \E w \in workers : Untimed(SqlOpen(w))
    \/ \E w \in workers : Untimed(Ping(w))
    \/ \E w \in workers : Untimed(Prepare(w))
    \/ \E w \in workers : Untimed(Scan(w))
    \/ \E w \in workers : Untimed(Handoff(w))
    \/ \E s \in senders : Untimed(NewClient(s))
    \/ \E s \in senders : Untimed(Inc(s))

Spec == Init /\ [][Next]_vars

----------------------------------------------------------------------------
(* Runs in which the data source and the sink work *)

\* No database call has failed, every scalar scanned is an integer, the statsd
\* client could be made and its Inc did not fail.
Healthy ==
    /\ Alive
    /\ \A w \in workers : ~HasErr(w.steps) /\ (w.pc = "send" => ~ParseInt(w.result).err)
    /\ ~lastSend.sendErr

Nominal(A) == A /\ UNCHANGED <<clock, io>> /\ Healthy'

NextE2E ==
    \/ \E p \in Commands : Nominal(TickFire(p))
    \/ \E p \in Commands : Nominal(HandleTick(p))
    \/ \E w \in workers : Nominal(SqlOpen(w))
    \/ \E w \in workers : Nominal(Ping(w))
    \/ \E w \in workers : Nominal(Prepare(w))
    \/ \E w \in workers : Nominal(Scan(w))
    \/ \E w \in workers : Nominal(Handoff(w))
    \/ \E s \in senders : Nominal(NewClient(s))
    \/ \E s \in senders : Nominal(Inc(s))

SpecE2E == Init /\ [][NextE2E]_vars

----------------------------------------------------------------------------
(* The encoding of a Result on the channel, on its own *)

\* The variables of the pipeline.
pipe == <<ctl, tickPending, fired, started, workers, main, senders, recvCount,
          incNos, incSeqs, lastSend, crash, held>>

\* Longest key tried.
MaxNameLen == 3

\* Largest absolute value tried.
MaxValue == 12

NameChars == {"q", ".", ":"}

Names == UNION {[1..n -> NameChars] : n \in 1..MaxNameLen}

Values == (0 - MaxValue)..MaxValue

InitCodec ==
    /\ Started
    /\ clock = NoClock
    /\ io \in {[fn |-> "codec", stage |-> "in", name |-> n, value |-> v,
                msg |-> <<>>, key |-> <<>>, val |-> 0, err |-> FALSE] :
               n \in Names, v \in Values}

\* mysqlWorker: the scalar is scanned into the string `result`, and
\* res := fmt.Sprint(cmd.key, ":", result).
Encode ==
    /\ io.fn = "codec" /\ io.stage = "in"
    /\ io' = [io EXCEPT !.stage = "msg", !.msg = Sprint(io.name, FormatInt(io.value))]
    /\ UNCHANGED <<pipe, clock>>

\* statsdSender: arr := strings.Split(msg, ":"); key := arr[0];
\* value, err := strconv.ParseInt(arr[1], 10, 64).
Decode ==
    /\ io.fn = "codec" /\ io.stage = "msg"
    /\ LET arr == Split(io.msg)
       IN  io' = [io EXCEPT !.stage = "out", !.key = arr[1],
                            !.val = ParseInt(arr[2]).val, !.err = ParseInt(arr[2]).err]
    /\ UNCHANGED <<pipe, clock>>

NextCodec == Encode \/ Decode

SpecCodec == InitCodec /\ [][NextCodec]_vars

----------------------------------------------------------------------------
(* The pipeline with the time of the tickers; calls take no time *)

\* The time observed, in units of the clock.
MaxTime == 6

\* cmd.freq of the commands, in units of the clock.
Interval(p) == IF p = "q1" THEN 2 ELSE 3

\* time.NewTicker(d): the first tick comes after d.
FirstTick(p) == Interval(p)

InitTimed ==
    /\ Started
    /\ clock = [now |-> 0, next |-> [p \in Commands |-> FirstTick(p)]]
    /\ io = NoIo

\* The ticker of p fires at its time, and then every Interval(p).
TimedTick(p) ==
    /\ Alive
    /\ clock.next[p] = clock.now
    /\ Fire(p)
    /\ clock' = [clock EXCEPT !.next[p] = @ + Interval(p)]
    /\ UNCHANGED io

\* Nothing is left to do at this time: no tick is due, and every call begun
\* has returned (calls take no time and main keeps up).
Settled ==
    Alive => /\ \A p \in Commands : clock.next[p] > clock.now /\ ~tickPending[p]
             /\ workers = {} /\ senders = {}

\* Time passes.
Advance ==
    /\ Settled
    /\ clock.now < MaxTime
    /\ clock' = [clock EXCEPT !.now = @ + 1]
    /\ UNCHANGED <<pipe, io>>

NextTimed ==
    \/ \E p \in Commands : TimedTick(p)
    \/ Advance
    \/ \E p \in Commands : Untimed(HandleTick(p))
    \/ \E w \in workers : Untimed(SqlOpen(w))
    \/ \E w \in workers : Untimed(Ping(w))
    \/ \E w \in workers : Untimed(Prepare(w))
    \/ \E w \in workers : Untimed(Scan(w))
    \/ \E w \in workers : Untimed(Handoff(w))
    \/ \E s \in senders : Untimed(NewClient(s))
    \/ \E s \in senders : Untimed(Inc(s))

SpecTimed == InitTimed /\ [][NextTimed]_vars

----------------------------------------------------------------------------
(* mysqlURIBuilder and statsdURIBuilder, on their own *)

\* Operands of fmt.Sprint.
StrOp(v) == [t |-> "string", v |-> v]

IntOp(v) == [t |-> "int", v |-> v]

OpText(op) == IF op.t = "string" THEN op.v ELSE FormatInt(op.v)

RECURSIVE GoSprint(_)
\* fmt.Sprint: the operands in their default formats, with a space between two
\* operands when neither is a string.
GoSprint(ops) ==
    IF ops = <<>> THEN <<>>
    ELSE IF Len(ops) = 1 THEN OpText(ops[1])
    ELSE OpText(ops[1])
           \o (IF ops[1].t # "string" /\ ops[2].t # "string" THEN <<" ">> ELSE <<>>)
           \o GoSprint(Tail(ops))

\* As if the port had been left out of the TCP form.
mysqlURIBuilderNoPort(config) ==
    IF config.mysqlHost = <<>>
    THEN GoSprint(<<StrOp(config.mysqlUser), StrOp(<<":">>), StrOp(config.mysqlPass),
                    StrOp(<<"@">>), StrOp(<<"/">>), StrOp(config.mysqlDb)>>)
    ELSE GoSprint(<<StrOp(config.mysqlUser), StrOp(<<":">>), StrOp(config.mysqlPass),
                    StrOp(<<"@">>), StrOp(config.mysqlHost),
                    StrOp(<<"/">>), StrOp(config.mysqlDb)>>)

mysqlURIBuilder(config) ==
    IF config.mysqlHost = <<>>
    THEN GoSprint(<<StrOp(config.mysqlUser), StrOp(<<":">>), StrOp(config.mysqlPass),
                    StrOp(<<"@">>), StrOp(<<"/">>), StrOp(config.mysqlDb)>>)
    ELSE GoSprint(<<StrOp(config.mysqlUser), StrOp(<<":">>), StrOp(config.mysqlPass),
                    StrOp(<<"@">>), StrOp(config.mysqlHost), StrOp(<<":">>),
                    IntOp(config.mysqlPort), StrOp(<<"/">>), StrOp(config.mysqlDb)>>)

statsdURIBuilder(config) ==
    GoSprint(<<StrOp(config.statsdHost), StrOp(<<":">>), IntOp(config.statsdPort)>>)

\* The configurations tried.
Configs ==
    [mysqlHost : {<<>>, <<"d", "b">>}, mysqlUser : {<<>>, <<"u">>},
     mysqlPass : {<<>>, <<"p", "w">>}, mysqlDb : {<<"i", "s">>},
     mysqlPort : {3306, 80}, statsdHost : {<<>>, <<"g">>}, statsdPort : {8125, 80}]

InitUri ==
    /\ Started
    /\ clock = NoClock
    /\ io \in {[fn |-> "uri", config |-> c, given |-> c, mysqlDone |-> FALSE,
                mysqlUri |-> <<>>, statsdDone |-> FALSE, statsdUri |-> <<>>] :
               c \in Configs}

\* connecturi := mysqlURIBuilder(config)
BuildMysqlURI ==
    /\ io.fn = "uri" /\ ~io.mysqlDone
    /\ io' = [io EXCEPT !.mysqlDone = TRUE, !.mysqlUri = mysqlURIBuilder(io.config)]
    /\ UNCHANGED <<pipe, clock>>

\* statsd.NewClient(statsdURIBuilder(config), "")
BuildStatsdURI ==
    /\ io.fn = "uri" /\ ~io.statsdDone
    /\ io' = [io EXCEPT !.statsdDone = TRUE, !.statsdUri = statsdURIBuilder(io.config)]
    /\ UNCHANGED <<pipe, clock>>

NextUri == BuildMysqlURI \/ BuildStatsdURI

SpecUri == InitUri /\ [][NextUri]_vars

----------------------------------------------------------------------------
(* configure and the launch of the controllers, on their own *)

\* A key of an ini section as the file gives it: absent, a text that is no
\* number, or a number.
Absent == [kind |-> "absent", v |-> 0]

Text == [kind |-> "text", v |-> 0]

Num(n) == [kind |-> "int", v |-> n]

\* section.Key(k).Int(): the number, or 0 (with an error that configure drops)
\* when the key is absent or is no number.
KeyInt(raw) == IF raw.kind = "int" THEN raw.v ELSE 0

\* The [config] sections tried: the documented keys mysql_port and statsd_port,
\* and the key stats_port.
ConfigSections ==
    [mysql_port : {Absent, Num(0), Num(3307)},
     statsd_port : {Absent, Num(0), Num(9125)},
     stats_port : {Absent, Num(9126)}]

\* The command sections tried.
CommandSections ==
    [key : {<<>>, <<"q", "1">>}, freq : {Absent, Text, Num(0), Num(0 - 5), Num(1000)}]

InitConfigure ==
    /\ Started
    /\ clock = NoClock
    /\ io \in {[fn |-> "configure", stage |-> "file", config |-> c, command |-> m,
                mysqlPort |-> 0, statsdPort |-> 0, key |-> <<>>, freq |-> 0] :
               c \in ConfigSections, m \in CommandSections}

\* statsdPortc, err = section.Key("stats_port").Int()
SinkPortKey(section) == section.stats_port

\* configure: a port of 0 becomes the default; the command is taken as it is.
Configure ==
    /\ io.fn = "configure" /\ io.stage = "file"
    /\ io' = [io EXCEPT
                !.stage = "loaded",
                !.mysqlPort = IF KeyInt(io.config.mysql_port) = 0 THEN 3306
                              ELSE KeyInt(io.config.mysql_port),
                !.statsdPort = IF KeyInt(SinkPortKey(io.config)) = 0 THEN 8125
                               ELSE KeyInt(SinkPortKey(io.config)),
                !.key = io.command.key,
                !.freq = KeyInt(io.command.freq)]
    /\ UNCHANGED <<pipe, clock>>

\* main: `go controller(command, config, results)` for every command.
Launch ==
    /\ io.fn = "configure" /\ io.stage = "loaded"
    /\ io' = [io EXCEPT !.stage = "launched"]
    /\ UNCHANGED <<pipe, clock>>

\* controller: time.NewTicker(time.Millisecond * time.Duration(cmd.freq)), which
\* panics on an interval that is not positive.
NewTicker ==
    /\ io.fn = "configure" /\ io.stage = "launched"
    /\ io' = [io EXCEPT !.stage = IF io.freq <= 0 THEN "panic" ELSE "ticking"]
    /\ UNCHANGED <<pipe, clock>>

NextConfigure == Configure \/ Launch \/ NewTicker

SpecConfigure == InitConfigure /\ [][NextConfigure]_vars

----------------------------------------------------------------------------
(* Properties *)

\* C1: when a step of mysqlWorker (open, ping, prepare, scan) has failed, the
\* call sends nothing on `results`: every message main has received comes from
\* a call none of whose steps failed.
C1_NoResultOnFailure == \A s \in senders : ~HasErr(s.src.steps)

\* C2: mysqlWorker stops at its first failure: in no call, running or ended by a
\* panic, does a step run after a step that failed.
C2_StopsAtFirstFailure ==
    /\ \A w \in workers : StopsAtFirstErr(w.steps)
    /\ StopsAtFirstErr(crash.steps)

\* C3: a failure inside statsdSender (connecting, decoding, sending) never ends
\* main's receive loop.
C3_DispatcherSurvivesFailure ==
    (lastSend.done /\ (lastSend.connectErr \/ lastSend.decodeErr \/ lastSend.sendErr))
        => ~(main = "dead" /\ crash.by = "statsdSender")

\* C4: a Result whose value does not decode as an integer (or for which the sink
\* cannot be connected) is dropped: client.Inc is not called for it.
C4_UndecodableResultDropped ==
    (lastSend.done /\ (lastSend.decodeErr \/ lastSend.connectErr)) => ~lastSend.incIssued

\* C5: a controller survives a failed execution of its own command: a failure in
\* a mysqlWorker call of command p never ends p's controller loop.
C5_SchedulerSurvivesFailure ==
    \A p \in Commands :
        (crash.by = "mysqlWorker" /\ crash.cmd = p /\ HasErr(crash.steps)) => ctl[p] # "dead"

\* C6: failure isolation: a failure in a mysqlWorker call of command a never
\* stops another command b's controller, nor main's dispatching.
C6_FailureIsolation ==
    \A a, b \in Commands :
        (a # b /\ crash.cmd = a /\ crash.by = "mysqlWorker")
            => (ctl[b] # "dead" /\ main # "dead")

\* C7: per command, at most one mysqlWorker call is in progress in every
\* reachable state, also when ticks fire while a call is running.
C7_OneExecutionPerProbe == \A p \in Commands : Cardinality(WorkersOf(p)) <= 1

\* C7 witness: a command's second call is inside its database I/O while its
\* ticker already holds the next tick.
C7_Witness ==
    \E w \in workers : w.seq = 2 /\ w.pc \in DbIO /\ tickPending[w.cmd]

\* C8: while command a's call is inside its database I/O, command b's controller,
\* waiting at its select with a tick in its ticker, can take the tick and start
\* its own call: a's state does not disable b's step.
C8_SchedulersIndependent ==
    \A a, b \in Commands :
        (/\ a # b
         /\ \E w \in WorkersOf(a) : w.pc \in DbIO
         /\ ctl[b] = "select"
         /\ tickPending[b])
            => ENABLED HandleTick(b)

\* C8 witness: a's first call is still inside its database I/O while b is
\* already running its second call.
C8_Witness ==
    \E wa, wb \in workers :
        /\ wa.cmd # wb.cmd
        /\ wa.seq = 1 /\ wa.pc \in DbIO /\ fired[wa.cmd] = 1
        /\ wb.seq = 2

\* C9 as stated: a controller is never blocked handing its result to the channel
\* while main is busy in statsdSender.
C9_NeverBlockedOnDispatcher ==
    \A w \in workers : ~(w.pc = "send" /\ main # "recv")

\* C9 amended: while the process runs, every controller is in one of three
\* places, none of which waits on another controller: at its select (and it
\* takes a tick as soon as its ticker holds one), inside its one call's
\* database I/O (whose next step can always be taken), or in that call's send
\* on `results` (which completes as soon as main is at its receive).
C9_SuspensionPoints ==
    Alive =>
      \A p \in Commands :
        \/ /\ ctl[p] = "select"
           /\ WorkersOf(p) = {}
           /\ tickPending[p] => ENABLED HandleTick(p)
        \/ /\ ctl[p] = "call"
           /\ \E w \in WorkersOf(p) :
                \/ w.pc \in DbIO /\ ENABLED (SqlOpen(w) \/ Ping(w) \/ Prepare(w) \/ Scan(w))
                \/ w.pc = "send" /\ (main = "recv" => ENABLED Handoff(w))

\* C9 witness: a call is blocked in its send while main is inside statsdSender
\* with an earlier result.
C9_Witness ==
    \E w \in workers : w.pc = "send" /\ main = "call" /\ senders # {}

\* C10: main calls client.Inc for the messages in the order in which it received
\* them, and for every command the Inc calls follow the order of the ticks that
\* produced them.
C10_FifoPerProbeOrder ==
    /\ StrictlyIncreasing(incNos)
    /\ \A p \in Commands : StrictlyIncreasing(incSeqs[p])

\* C10 witness: two results of one command and one of another have reached
\* client.Inc.
C10_Witness ==
    \E p, q \in Commands : p # q /\ Len(incSeqs[p]) >= 2 /\ Len(incSeqs[q]) >= 1

\* C11: in runs where the data source and the sink work, the client.Inc calls
\* made for a command are exactly its executed ticks 1, 2, ... once each (all
\* but a tick still on its way), and each call carries the command's key, the
\* integer the query returned and sample rate 1.0.
C11_OneIncrementPerTick ==
    /\ \A p \in Commands :
         /\ incSeqs[p] = [i \in 1..Len(incSeqs[p]) |-> i]
         /\ Len(incSeqs[p]) = started[p] - Cardinality(WorkersOf(p))
                                - Cardinality({s \in senders : s.src.cmd = p})
    /\ lastSend.done =>
         /\ lastSend.incIssued
         /\ lastSend.key = CmdKey(lastSend.src)
         /\ lastSend.value = DecVal(lastSend.scalar)
         /\ lastSend.rate = "1.0"
         /\ lastSend.seq = Len(incSeqs[lastSend.src])

\* C11 witness: a command's second tick has reached client.Inc with the value 42.
C11_Witness ==
    /\ lastSend.done /\ lastSend.value = 42 /\ lastSend.seq = 2
    /\ \E p \in Commands : incSeqs[p] = <<1, 2>>

\* C12 as stated: for every key and every integer value, encoding the pair as
\* mysqlWorker does and decoding it as statsdSender does gives the pair back.
C12_RoundTrip ==
    (io.fn = "codec" /\ io.stage = "out")
        => (io.key = io.name /\ io.val = io.value /\ ~io.err)

\* C12 amended: the pair comes back for every key that holds no ":" and every
\* integer value.
C12_RoundTripNoColon ==
    (io.fn = "codec" /\ io.stage = "out" /\ ColonAt(io.name) = {})
        => (io.key = io.name /\ io.val = io.value /\ ~io.err)

\* C12 witness: a key of several characters without ":" and a negative value of
\* two digits have made the round trip.
C12_Witness ==
    /\ io.fn = "codec" /\ io.stage = "out"
    /\ io.name = <<"q", ".", "q">> /\ io.value = 0 - 12 /\ io.val = 0 - 12

\* C15: the handles a mysqlWorker call opened are closed once it has returned,
\* whatever its steps gave; a controller waiting for its tick holds none; every
\* open handle belongs to the one call in progress that opened it.
C15_ResourcesReleased ==
    /\ \A h \in held :
         \E w \in workers :
            /\ w.cmd = h.cmd /\ w.seq = h.seq
            /\ \A v \in workers : (v.cmd = h.cmd /\ v.seq = h.seq) => v = w
            /\ (h.kind = "db" => w.db = "open") /\ (h.kind = "stmt" => w.stmt = "open")
    /\ \A p \in Commands : ctl[p] = "select" => {h \in held : h.cmd = p} = {}
    /\ \A s \in senders : {h \in held : h.cmd = s.src.cmd /\ h.seq = s.src.seq} = {}

\* C15 witness: a call that opened both handles and had a failed step has
\* returned and holds nothing, while the call of the other command holds its own.
C15_Witness ==
    \E s \in senders :
        /\ s.src.db = "open" /\ s.src.stmt = "open" /\ HasErr(s.src.steps)
        /\ {h \in held : h.cmd = s.src.cmd} = {}
        /\ \E h \in held : h.cmd # s.src.cmd /\ h.kind = "stmt"

\* C18: executions started never exceed ticks fired; the ticks fired and not
\* yet taken are at most one, the rest were dropped.
C18_MissedTicksDropped ==
    \A p \in Commands :
        started[p] + (IF tickPending[p] THEN 1 ELSE 0) <= fired[p]

\* C18 witness: three ticks fired during one execution; one is pending, so one
\* catch-up execution can follow, and one tick was dropped.
C18_Witness ==
    \E p \in Commands :
        /\ fired[p] = 3 /\ started[p] = 1 /\ tickPending[p]
        /\ WorkersOf(p) # {}

\* C19: each command has at most one result produced and not yet received, the
\* results not yet received are at most as many as the commands, and a
\* controller takes no tick while its previous result is not received.
C19_SynchronousHandOff ==
    /\ \A p \in Commands :
         /\ Cardinality({w \in workers : w.cmd = p /\ w.pc = "send"}) <= 1
         /\ (\E w \in workers : w.cmd = p /\ w.pc = "send") => ~ENABLED HandleTick(p)
    /\ Cardinality({w \in workers : w.pc = "send"}) <= Cardinality(Commands)

\* C19 witness: every command has a result waiting for main, which is busy in
\* statsdSender with an earlier one.
C19_Witness ==
    /\ \A p \in Commands : \E w \in workers : w.cmd = p /\ w.pc = "send"
    /\ ~MainReady
    /\ recvCount = 1

\* C17: with calls that take no time and a main that keeps up, a command with
\* interval I has been executed between T \div I and T \div I + 1 times when the
\* time T since the start has passed, and not at all before one interval.
C17_SchedulingRate ==
    \A p \in Commands :
        /\ started[p] > 0 => clock.now >= Interval(p)
        /\ ENABLED Advance =>
             /\ started[p] >= clock.now \div Interval(p)
             /\ started[p] <= (clock.now \div Interval(p)) + 1

\* C20: a result that a call is pushing stays pushed until main receives it
\* and hands it to statsdSender; it is never given up.  (As a property of steps.)
C20_NoLostResults ==
    [][\A w \in workers :
          w.pc = "send" => (w \in workers' \/ \E s \in senders' : s.src = w)]_vars

\* The decimal text of the ports tried, written out.
PortText(n) ==
    CASE n = 3306 -> <<"3", "3", "0", "6">>
      [] n = 8125 -> <<"8", "1", "2", "5">>
      [] OTHER -> <<"8", "0">>

\* C13: mysqlURIBuilder returns user:credential@/database for an empty host
\* (whatever the port) and user:credential@host:port/database otherwise;
\* statsdURIBuilder returns host:port; neither changes the configuration.
C13_ConnectionStrings ==
    io.fn = "uri" =>
      LET c == io.given
      IN  /\ io.config = c
          /\ io.mysqlDone =>
               io.mysqlUri =
                 IF c.mysqlHost = <<>>
                 THEN c.mysqlUser \o <<":">> \o c.mysqlPass \o <<"@", "/">> \o c.mysqlDb
                 ELSE c.mysqlUser \o <<":">> \o c.mysqlPass \o <<"@">> \o c.mysqlHost
                        \o <<":">> \o PortText(c.mysqlPort) \o <<"/">> \o c.mysqlDb
          /\ io.statsdDone =>
               io.statsdUri = c.statsdHost \o <<":">> \o PortText(c.statsdPort)

\* C13 witness: both strings have been built for a configuration with a host.
C13_Witness ==
    /\ io.fn = "uri" /\ io.mysqlDone /\ io.statsdDone
    /\ io.mysqlUri = <<"u", ":", "p", "w", "@", "d", "b", ":", "3", "3", "0", "6", "/", "i", "s">>
    /\ io.statsdUri = <<"g", ":", "8", "1", "2", "5">>

\* C14: after configure an absent (0) mysql_port is 3306 and any other value is
\* kept, and an absent (0) statsd_port is 8125 and any other value is kept.
C14_PortDefaults ==
    (io.fn = "configure" /\ io.stage # "file") =>
        /\ io.mysqlPort = IF KeyInt(io.config.mysql_port) = 0 THEN 3306
                          ELSE io.config.mysql_port.v
        /\ io.statsdPort = IF KeyInt(io.config.statsd_port) = 0 THEN 8125
                           ELSE io.config.statsd_port.v

\* C16: every command for which a controller is launched has an interval above
\* zero and a key that is not empty.
C16_ProbeInvariant ==
    (io.fn = "configure" /\ io.stage \in {"launched", "ticking", "panic"})
        => (io.freq > 0 /\ io.key # <<>>)

============================================================================
